---- MODULE Spec2Model ----
(***************************************************************************)
(* Railway -> Telegram webhook relay.                                      *)
(*                                                                         *)
(* The repository holds two server entry points: src/unnamed/part_000 (the *)
(* server with payload validation, formatDeploymentMessage and a           *)
(* GET /webhook route) and src/index.js (the server whose POST /webhook    *)
(* handler formats inline and has neither).  Both are modelled; `build`    *)
(* says which of the two files the process was started from.               *)
(*                                                                         *)
(* JavaScript values are tagged records, so that undefined, strings,       *)
(* objects and functions can be compared with each other.                  *)
(***************************************************************************)
EXTENDS Naturals, Sequences, FiniteSets

VARIABLES build, process, req, phase, resp, calls

vars == <<build, process, req, phase, resp, calls>>

(***************************************************************************)
(* Bounds.                                                                 *)
(***************************************************************************)
MaxRequests == 2

(***************************************************************************)
(* JavaScript values.                                                      *)
(***************************************************************************)
Undefined == [t |-> "undefined"]

Str(s) == [t |-> "string", v |-> s]

Obj(f) == [t |-> "object", f |-> f]

Fn(n) == [t |-> "function", v |-> n]

\* ToBoolean: undefined and the empty string are falsy; non-empty strings,
\* objects and functions are truthy.
Truthy(v) == v # Undefined /\ v # Str("")

\* a || b
OrElse(a, b) == IF Truthy(a) THEN a ELSE b

\* o?.k : undefined when o is nullish, otherwise the property (undefined
\* when the object has no such property; a string has none of these).
Get(o, k) ==
  IF o.t = "object" /\ k \in DOMAIN o.f THEN o.f[k] ELSE Undefined

\* `${v}` : string conversion inside a template literal.
ToStr(v) ==
  CASE v.t = "undefined" -> "undefined"
    [] v.t = "string" -> v.v
    [] v.t = "function" -> "function " \o v.v \o "() { [native code] }"
    [] OTHER -> "[object Object]"

(***************************************************************************)
(* The two entry points.                                                   *)
(***************************************************************************)
Part000 == "part_000"

IndexJs == "index.js"

Builds == {Part000, IndexJs}

TELEGRAM_CHAT_ID == "chat"

(***************************************************************************)
(* statusEmojis: the own keys of the table of each file.  Glyphs are named *)
(* by their emoji short names.                                             *)
(***************************************************************************)
statusEmojisPart000 ==
  [SUCCESS |-> "white_check_mark", BUILDING |-> "hammer_and_pick",
   DEPLOYING |-> "rocket", CRASHED |-> "x", FAILED |-> "boom",
   QUEUED |-> "hourglass", REMOVED |-> "wastebasket",
   SKIPPED |-> "next_track"]

statusEmojisIndexJs ==
  [SUCCESS |-> "white_check_mark", BUILDING |-> "hammer_and_pick",
   DEPLOYING |-> "rocket", CRASHED |-> "x", FAILED |-> "boom",
   QUEUED |-> "hourglass", REMOVED |-> "wastebasket",
   REMOVING |-> "arrows_counterclockwise", SKIPPED |-> "next_track",
   INITIALIZED |-> "dart", WAITING |-> "pause", SLEEPING |-> "sleeping",
   AWAITING_APPROVAL |-> "alarm_clock"]

statusEmojis(b) ==
  IF b = Part000 THEN statusEmojisPart000 ELSE statusEmojisIndexJs

DefaultGlyph == "information"

\* statusEmojis is an object literal, so a property read that misses the
\* own keys continues on Object.prototype: these names resolve to the
\* built-in functions (and __proto__, not modelled, to the prototype
\* object itself).
ObjectPrototype ==
  [constructor |-> Fn("Object"), toString |-> Fn("toString"),
   toLocaleString |-> Fn("toLocaleString"), valueOf |-> Fn("valueOf"),
   hasOwnProperty |-> Fn("hasOwnProperty"),
   isPrototypeOf |-> Fn("isPrototypeOf"),
   propertyIsEnumerable |-> Fn("propertyIsEnumerable")]

\* statusEmojis[key] : the key is converted to a string first.
Lookup(b, key) ==
  IF ToStr(key) \in DOMAIN statusEmojis(b)
  THEN Str(statusEmojis(b)[ToStr(key)])
  ELSE IF ToStr(key) \in DOMAIN ObjectPrototype
       THEN ObjectPrototype[ToStr(key)]
       ELSE Undefined

\* const emoji = statusEmojis[data.status] || "<default>", as rendered.
Emoji(b, data) ==
  ToStr(OrElse(Lookup(b, Get(data, "status")), Str(DefaultGlyph)))

(***************************************************************************)
(* Message formatting.  A message is the record of the values substituted  *)
(* into the template, one field per line of the template.                  *)
(***************************************************************************)
Now == "now"

\* a plausible slip: the creator read without optional chaining fallbacks,
\* so that a missing creator renders as "undefined"
formatDeploymentMessageNoFallback(data) ==
  [title |-> "Railway Deployment",
   project |-> ToStr(OrElse(Get(Get(data, "project"), "name"),
                            Str("Unknown Project"))),
   glyph |-> Emoji(Part000, data),
   status |-> ToStr(Get(data, "status")),
   environment |-> ToStr(OrElse(Get(Get(data, "environment"), "name"),
                                Str("Unknown Environment"))),
   creator |-> ToStr(Get(Get(Get(data, "deployment"), "creator"), "name")),
   deploymentId |-> ToStr(OrElse(Get(Get(data, "deployment"), "id"),
                                 Str("Unknown"))),
   time |-> Now]

\* part_000: function formatDeploymentMessage(data)
formatDeploymentMessage(data) ==
  [title |-> "Railway Deployment",
   project |-> ToStr(OrElse(Get(Get(data, "project"), "name"),
                            Str("Unknown Project"))),
   glyph |-> Emoji(Part000, data),
   status |-> ToStr(Get(data, "status")),
   environment |-> ToStr(OrElse(Get(Get(data, "environment"), "name"),
                                Str("Unknown Environment"))),
   creator |-> ToStr(OrElse(Get(Get(Get(data, "deployment"), "creator"),
                                "name"),
                            Str("Unknown Creator"))),
   deploymentId |-> ToStr(OrElse(Get(Get(data, "deployment"), "id"),
                                 Str("Unknown"))),
   time |-> Now]

\* index.js: the template written inline in the handler (no Deployment ID
\* line).
inlineMessage(data) ==
  [title |-> "Railway Deployment",
   project |-> ToStr(OrElse(Get(Get(data, "project"), "name"),
                            Str("Unknown"))),
   glyph |-> Emoji(IndexJs, data),
   status |-> ToStr(Get(data, "status")),
   environment |-> ToStr(OrElse(Get(Get(data, "environment"), "name"),
                                Str("Unknown"))),
   creator |-> ToStr(OrElse(Get(Get(Get(data, "deployment"), "creator"),
                                "name"),
                            Str("Unknown"))),
   time |-> Now]

Message(b, data) ==
  IF b = Part000 THEN formatDeploymentMessage(data) ELSE inlineMessage(data)

\* a plausible slip: the project name used where the id is meant
ButtonUrlByName(data) ==
  IF Truthy(Get(Get(data, "project"), "name"))
  THEN "https://railway.app/project/"
         \o ToStr(Get(Get(data, "project"), "name")) \o "/deployments"
  ELSE "https://railway.app"

\* const projectId = data.project?.id; const buttonUrl = projectId ? ... : ...
ButtonUrl(data) ==
  IF Truthy(Get(Get(data, "project"), "id"))
  THEN "https://railway.app/project/"
         \o ToStr(Get(Get(data, "project"), "id")) \o "/deployments"
  ELSE "https://railway.app"

(***************************************************************************)
(* sendMessage: the options of the outbound call.  reply_markup is the     *)
(* inline_keyboard (rows of buttons); the property is absent when no       *)
(* button is attached.                                                     *)
(***************************************************************************)
Options(buttonText, buttonUrl) ==
  IF Truthy(buttonText) /\ Truthy(buttonUrl)
  THEN [parse_mode |-> "HTML", disable_web_page_preview |-> TRUE,
        reply_markup |->
          <<  << [text |-> ToStr(buttonText), url |-> ToStr(buttonUrl)] >>  >>]
  ELSE [parse_mode |-> "HTML", disable_web_page_preview |-> TRUE]

\* a plausible slip: sendMessage without its try/catch
sendMessageRethrows(outcome) ==
  IF outcome = "failed" THEN "rejected" ELSE "fulfilled"

\* What awaiting sendMessage gives the handler once the platform call has
\* settled: the try/catch swallows a rejection, so the promise of
\* sendMessage is fulfilled either way.
sendMessage(outcome) == "fulfilled"

(***************************************************************************)
(* HTTP responses.                                                         *)
(***************************************************************************)
Response(status, body) == [status |-> status, body |-> body]

Success == Response(200, [success |-> TRUE])

InvalidPayload == Response(400, [error |-> "Invalid payload"])

InternalError == Response(500, [error |-> "Internal server error"])

MethodNotAllowed ==
  Response(405, [error |-> "Method Not Allowed",
                 message |-> "This endpoint only accepts POST requests"])

EndpointNotFound == Response(404, [error |-> "Endpoint not found"])

Healthy ==
  Response(200, [status |-> "healthy", timestamp |-> Now, uptime |-> 0])

ServiceDescription ==
  Response(200, [message |-> "Railway to Telegram Webhook Service",
                 endpoints |-> [webhook |-> "POST /webhook",
                                health |-> "GET /health"]])

(***************************************************************************)
(* The POST /webhook handlers, up to their first await.  The result is     *)
(* what the synchronous part of the handler does: it sends a response,     *)
(* starts sendMessage, or throws.                                          *)
(***************************************************************************)
Respond(response) == [kind |-> "respond", response |-> response]

Send(message, options) ==
  [kind |-> "send", message |-> message, options |-> options]

Throw == [kind |-> "throw"]

\* a plausible slip: SERVICE events are delivered as well
IsDeployOrService(data) ==
  Get(data, "type") \in {Str("DEPLOY"), Str("SERVICE")}

\* data.type === "DEPLOY"
IsDeploy(data) == Get(data, "type") = Str("DEPLOY")

\* part_000, the body of the try block
webhookPart000(data) ==
  IF ~Truthy(data) \/ ~Truthy(Get(data, "type"))
  THEN Respond(InvalidPayload)
  ELSE IF IsDeploy(data)
       THEN Send(formatDeploymentMessage(data),
                 Options(Str("View Project"), Str(ButtonUrl(data))))
       ELSE Respond(Success)

\* index.js, the body of the try block: data.type on an undefined body is
\* a TypeError.
webhookIndexJs(data) ==
  IF data = Undefined
  THEN Throw
  ELSE IF IsDeploy(data)
       THEN Send(inlineMessage(data),
                 Options(Str("View Project"), Str(ButtonUrl(data))))
       ELSE Respond(Success)

\* a plausible slip: the handler without its try/catch
TryCatchMissing(result) == result

\* try { ... } catch (error) { res.status(500).json(...) }
TryCatch(result) ==
  IF result.kind = "throw" THEN Respond(InternalError) ELSE result

\* a plausible slip: a module-level cache that drops a message already
\* handed to sendMessage by an earlier request
WebhookDedup(b, data) ==
  IF /\ Truthy(data)
     /\ IsDeploy(data)
     /\ \E i \in DOMAIN calls : calls[i].message = Message(b, data)
  THEN Respond(Success)
  ELSE TryCatch(IF b = Part000
                THEN webhookPart000(data)
                ELSE webhookIndexJs(data))

Webhook(b, data) ==
  TryCatch(IF b = Part000 THEN webhookPart000(data) ELSE webhookIndexJs(data))

\* The continuation of the handler after `await sendMessage(...)`.
AfterSend(settled) ==
  TryCatch(IF settled = "fulfilled" THEN Respond(Success) ELSE Throw)

(***************************************************************************)
(* Routing: the middleware and routes in the order the file registers      *)
(* them.  A body the JSON parser rejects goes to the error-handling        *)
(* middleware, past every route.                                           *)
(***************************************************************************)
ParseError == [t |-> "malformed"]

\* a plausible variant: app.all("/webhook") answering 405 to every method
\* but POST
RouteOfAll(b, method, path, body) ==
  IF body = ParseError THEN "error"
  ELSE IF method = "POST" /\ path = "/webhook" THEN "webhook"
  ELSE IF method = "GET" /\ path = "/health" THEN "health"
  ELSE IF method = "GET" /\ path = "/" THEN "root"
  ELSE IF b = Part000 /\ path = "/webhook" THEN "webhookGet"
  ELSE "notFound"

RouteOf(b, method, path, body) ==
  IF body = ParseError THEN "error"
  ELSE IF method = "POST" /\ path = "/webhook" THEN "webhook"
  ELSE IF method = "GET" /\ path = "/health" THEN "health"
  ELSE IF method = "GET" /\ path = "/" THEN "root"
  ELSE IF b = Part000 /\ method = "GET" /\ path = "/webhook"
       THEN "webhookGet"
  ELSE "notFound"

(***************************************************************************)
(* Inputs.  A payload is the parsed JSON object; a property the JSON does  *)
(* not have reads as undefined.  Field values are strings (possibly        *)
(* empty), as in the data model of the deployment event.                   *)
(***************************************************************************)
Payload(type, status, project, environment, deployment) ==
  Obj([type |-> type, status |-> status, project |-> project,
       environment |-> environment, deployment |-> deployment])

OptStrings(s) == {Undefined, Str(""), Str(s)}

Statuses ==
  {Undefined, Str(""), Str("SUCCESS"), Str("CRASHED"), Str("SLEEPING"),
   Str("BOGUS"), Str("constructor"), Str("toString")}

Projects ==
  {Undefined}
    \cup {Obj([name |-> n, id |-> i]) :
            n \in OptStrings("api"), i \in OptStrings("p1")}

Environments ==
  {Undefined} \cup {Obj([name |-> n]) : n \in OptStrings("prod")}

Creators ==
  {Undefined} \cup {Obj([name |-> n]) : n \in OptStrings("alice")}

Deployments ==
  {Undefined}
    \cup {Obj([id |-> i, creator |-> c]) :
            i \in OptStrings("d1"), c \in Creators}

\* every DEPLOY payload over the field values above
DeployPayloads ==
  {Payload(Str("DEPLOY"), s, p, e, d) :
     s \in Statuses, p \in Projects, e \in Environments, d \in Deployments}

FullDeploy ==
  Payload(Str("DEPLOY"), Str("SUCCESS"),
          Obj([name |-> Str("api"), id |-> Str("p1")]),
          Obj([name |-> Str("prod")]),
          Obj([id |-> Str("d1"), creator |-> Obj([name |-> Str("alice")])]))

Bare(type) == Payload(type, Undefined, Undefined, Undefined, Undefined)

\* the bodies of the POST /webhook requests of the server specification
Bodies ==
  {Undefined, ParseError, Bare(Undefined), Bare(Str("")),
   Bare(Str("SERVICE")), Bare(Str("OTHER")), Bare(Str("DEPLOY")),
   FullDeploy,
   Payload(Undefined, Str("SUCCESS"),
           Obj([name |-> Str("api"), id |-> Str("p1")]), Undefined,
           Undefined)}

Request(method, path, body) ==
  [method |-> method, path |-> path, body |-> body]

Methods == {"POST", "GET", "PUT", "DELETE", "PATCH"}

Requests ==
  {Request("POST", "/webhook", b) : b \in Bodies}
    \cup {Request(m, "/webhook", Undefined) : m \in Methods \ {"POST"}}
    \cup {Request("GET", "/health", Undefined), Request("GET", "/", Undefined),
          Request("GET", "/other", Undefined),
          Request("POST", "/other", ParseError)}

DeployRequests == {Request("POST", "/webhook", b) : b \in DeployPayloads}

NoRequest == Request("none", "none", Undefined)

RequestIds == 1 .. MaxRequests

(***************************************************************************)
(* State.                                                                  *)
(*   build      the file the process runs                                  *)
(*   process    "running", "exited" (a signal ended it) or "crashed" (an   *)
(*              unhandled rejection ended it)                              *)
(*   req[r]     the r-th request received                                  *)
(*   phase[r]   "idle" (not yet received), "arrived", "awaiting" (the      *)
(*              handler is suspended at await sendMessage), "done"         *)
(*   resp[r]    the responses written for request r, in order              *)
(*   calls      the outbound bot.telegram.sendMessage calls, in the order  *)
(*              they were started                                          *)
(***************************************************************************)
Init ==
  /\ build \in Builds
  /\ process = "running"
  /\ req = [r \in RequestIds |-> NoRequest]
  /\ phase = [r \in RequestIds |-> "idle"]
  /\ resp = [r \in RequestIds |-> << >>]
  /\ calls = << >>

CallsOf(r) == {i \in DOMAIN calls : calls[i].req = r}

\* a plausible slip: sendMessage(...) called without await
SettledNoAwait(call) == TRUE

\* await: the handler resumes only when the promise of the call is settled
Settled(call) == call.state # "pending"

Route(r) == RouteOf(build, req[r].method, req[r].path, req[r].body)

\* res.status(...).json(...) ends the request
Reply(r, response) ==
  /\ resp' = [resp EXCEPT ![r] = Append(@, response)]
  /\ phase' = [phase EXCEPT ![r] = "done"]

\* A request, one of Q, reaches the server.
Arrive(r, Q) ==
  /\ process = "running"
  /\ phase[r] = "idle"
  /\ \A s \in RequestIds : s < r => phase[s] # "idle"
  /\ \E q \in Q : req' = [req EXCEPT ![r] = q]
  /\ phase' = [phase EXCEPT ![r] = "arrived"]
  /\ UNCHANGED <<build, process, resp, calls>>

\* app.post("/webhook"), from the start of the handler to its first await
\* or to its response.  A throw that no catch recovers is an unhandled
\* rejection, which ends the process.
WebhookPost(r) ==
  /\ process = "running"
  /\ phase[r] = "arrived"
  /\ Route(r) = "webhook"
  /\ LET result == Webhook(build, req[r].body)
     IN  CASE result.kind = "respond" ->
                /\ Reply(r, result.response)
                /\ UNCHANGED <<build, process, req, calls>>
           [] result.kind = "send" ->
                /\ calls' = Append(calls,
                                   [req |-> r, chat |-> TELEGRAM_CHAT_ID,
                                    message |-> result.message,
                                    options |-> result.options,
                                    state |-> "pending"])
                /\ phase' = [phase EXCEPT ![r] = "awaiting"]
                /\ UNCHANGED <<build, process, req, resp>>
           [] OTHER ->
                /\ process' = "crashed"
                /\ UNCHANGED <<build, req, phase, resp, calls>>

\* The messaging platform answers the call: it is sent, or it fails.
TelegramSettles(i, outcome) ==
  /\ process = "running"
  /\ i \in DOMAIN calls
  /\ calls[i].state = "pending"
  /\ calls' = [calls EXCEPT ![i].state = outcome]
  /\ UNCHANGED <<build, process, req, phase, resp>>

\* The handler resumes after await sendMessage(...) and answers.
WebhookResume(r) ==
  /\ process = "running"
  /\ phase[r] = "awaiting"
  /\ \E i \in CallsOf(r) :
       /\ Settled(calls[i])
       /\ LET result == AfterSend(sendMessage(calls[i].state))
          IN  IF result.kind = "respond"
              THEN /\ Reply(r, result.response)
                   /\ UNCHANGED <<build, process, req, calls>>
              ELSE /\ process' = "crashed"
                   /\ UNCHANGED <<build, req, phase, resp, calls>>

\* bodyParser.json() rejects the body: next(err) reaches the error-handling
\* middleware.
ErrorMiddleware(r) ==
  /\ process = "running"
  /\ phase[r] = "arrived"
  /\ Route(r) = "error"
  /\ Reply(r, InternalError)
  /\ UNCHANGED <<build, process, req, calls>>

Health(r) ==
  /\ process = "running"
  /\ phase[r] = "arrived"
  /\ Route(r) = "health"
  /\ Reply(r, Healthy)
  /\ UNCHANGED <<build, process, req, calls>>

Root(r) ==
  /\ process = "running"
  /\ phase[r] = "arrived"
  /\ Route(r) = "root"
  /\ Reply(r, ServiceDescription)
  /\ UNCHANGED <<build, process, req, calls>>

\* part_000: app.get("/webhook")
WebhookGet(r) ==
  /\ process = "running"
  /\ phase[r] = "arrived"
  /\ Route(r) = "webhookGet"
  /\ Reply(r, MethodNotAllowed)
  /\ UNCHANGED <<build, process, req, calls>>

\* app.use("*"): no route answered
NotFound(r) ==
  /\ process = "running"
  /\ phase[r] = "arrived"
  /\ Route(r) = "notFound"
  /\ Reply(r, EndpointNotFound)
  /\ UNCHANGED <<build, process, req, calls>>

\* SIGTERM or SIGINT: process.exit(0)
Shutdown ==
  /\ process = "running"
  /\ process' = "exited"
  /\ UNCHANGED <<build, req, phase, resp, calls>>

Next ==
  \/ \E r \in RequestIds : Arrive(r, Requests)
  \/ \E r \in RequestIds : WebhookPost(r)
  \/ \E i \in 1 .. MaxRequests, o \in {"sent", "failed"} :
       TelegramSettles(i, o)
  \/ \E r \in RequestIds : WebhookResume(r)
  \/ \E r \in RequestIds : ErrorMiddleware(r)
  \/ \E r \in RequestIds : Health(r)
  \/ \E r \in RequestIds : Root(r)
  \/ \E r \in RequestIds : WebhookGet(r)
  \/ \E r \in RequestIds : NotFound(r)
  \/ Shutdown

Spec == Init /\ [][Next]_vars

(***************************************************************************)
(* The formatting specification: one POST /webhook request, drawn from     *)
(* every DEPLOY payload, handled by the same handler.                      *)
(***************************************************************************)
FormatNext ==
  \/ Arrive(1, DeployRequests)
  \/ WebhookPost(1)
  \/ \E o \in {"sent", "failed"} : TelegramSettles(1, o)
  \/ WebhookResume(1)

FormatSpec == Init /\ [][FormatNext]_vars

(***************************************************************************)
(* Properties.                                                             *)
(***************************************************************************)
OutboundOf(r) == {i \in DOMAIN calls : calls[i].req = r}

Answered(r) == phase[r] = "done"

IsWebhookPost(r) ==
  /\ phase[r] # "idle"
  /\ req[r].method = "POST"
  /\ req[r].path = "/webhook"
  /\ req[r].body # ParseError

HasType(r) == IsWebhookPost(r) /\ Truthy(Get(req[r].body, "type"))

IsDeployPost(r) ==
  IsWebhookPost(r) /\ Get(req[r].body, "type") = Str("DEPLOY")

\* C1: a POST /webhook request whose body is absent or has no (or a falsy)
\* `type` is answered 400 {"error":"Invalid payload"} and starts no
\* outbound call.
C1_MissingTypeRejected ==
  \A r \in RequestIds :
    (IsWebhookPost(r) /\ ~HasType(r)) =>
      /\ OutboundOf(r) = {}
      /\ Answered(r) => resp[r] = << InvalidPayload >>

\* C2: a POST /webhook request of type DEPLOY is answered
\* 200 {"success":true} whether its outbound call was sent or failed; a
\* failed delivery never becomes a 500 and never ends the process.
C2_DeployAnswered200 ==
  /\ process # "crashed"
  /\ \A r \in RequestIds :
       (IsDeployPost(r) /\ Answered(r)) => resp[r] = << Success >>

C2_Witness ==
  \E r \in RequestIds :
    /\ IsDeployPost(r)
    /\ Answered(r)
    /\ \E i \in OutboundOf(r) : calls[i].state = "failed"
    /\ resp[r] = << Success >>

\* C3: a POST /webhook request whose `type` is present and is not DEPLOY is
\* answered 200 {"success":true} and starts no outbound call.
C3_OtherTypesAcknowledged ==
  \A r \in RequestIds :
    (HasType(r) /\ ~IsDeployPost(r)) =>
      /\ OutboundOf(r) = {}
      /\ phase[r] # "awaiting"
      /\ Answered(r) => resp[r] = << Success >>

C3_Witness ==
  \E r, s \in RequestIds :
    /\ Answered(r) /\ Answered(s)
    /\ HasType(r) /\ Get(req[r].body, "type") = Str("SERVICE")
    /\ HasType(s) /\ Get(req[s].body, "type") = Str("OTHER")
    /\ calls = << >>

\* C4: a POST /webhook request of type DEPLOY starts exactly one outbound
\* call (none before the handler ran, one from then on, never a second one
\* after a failure), and its response is written only once that call has
\* completed, sent or failed.
C4_OneCallThenResponse ==
  \A r \in RequestIds :
    IsDeployPost(r) =>
      /\ phase[r] = "arrived" => OutboundOf(r) = {}
      /\ phase[r] \in {"awaiting", "done"} => Cardinality(OutboundOf(r)) = 1
      /\ resp[r] # << >> =>
           \A i \in OutboundOf(r) : calls[i].state \in {"sent", "failed"}
      /\ phase[r] = "awaiting" => resp[r] = << >>

C4_Witness ==
  \E r \in RequestIds :
    /\ IsDeployPost(r)
    /\ Answered(r)
    /\ Cardinality(OutboundOf(r)) = 1
    /\ \E s \in RequestIds :
         /\ IsDeployPost(s)
         /\ phase[s] = "awaiting"
         /\ \A i \in OutboundOf(s) : calls[i].state = "failed"

NonPostWebhook(r) ==
  /\ phase[r] # "idle"
  /\ req[r].path = "/webhook"
  /\ req[r].method # "POST"

Fails(r) ==
  /\ phase[r] # "idle"
  /\ \/ req[r].body = ParseError
     \/ /\ build = IndexJs
        /\ IsWebhookPost(r)
        /\ req[r].body = Undefined

Dispatch(r) ==
  \/ WebhookPost(r)
  \/ ErrorMiddleware(r)
  \/ Health(r)
  \/ Root(r)
  \/ WebhookGet(r)
  \/ NotFound(r)

\* C9: a request whose handling fails unexpectedly gets exactly one
\* response, 500 {"error":"Internal server error"}; no request gets more
\* than one response; the failure does not end the process; and while the
\* process runs, every request received can still be handled and the next
\* one can still be received.
C9_FailureRecoveredAtBoundary ==
  /\ process # "crashed"
  /\ \A r \in RequestIds :
       /\ Len(resp[r]) <= 1
       /\ Answered(r) => Len(resp[r]) = 1
       /\ (Fails(r) /\ Answered(r)) => resp[r] = << InternalError >>
       /\ (process = "running" /\ phase[r] = "arrived") => ENABLED Dispatch(r)
       /\ (process = "running" /\ phase[r] = "idle"
             /\ \A s \in RequestIds : s < r => phase[s] # "idle")
            => ENABLED Arrive(r, Requests)

C9_Witness ==
  /\ process = "running"
  /\ Fails(1) /\ req[1].body = Undefined /\ resp[1] = << InternalError >>
  /\ Fails(2) /\ req[2].body = ParseError /\ resp[2] = << InternalError >>

SameRequestSameOutcome ==
  \A r, s \in RequestIds :
    (Answered(r) /\ Answered(s) /\ req[r] = req[s]) =>
      /\ resp[r] = resp[s]
      /\ Cardinality(OutboundOf(r)) = Cardinality(OutboundOf(s))

AllAnswered == \A r \in RequestIds : Answered(r)

OthersUntouched ==
  \A r \in RequestIds :
    (resp'[r] # resp[r] \/ phase'[r] # phase[r]) =>
      /\ \A s \in RequestIds \ {r} : resp'[s] = resp[s] /\ phase'[s] = phase[s]
      /\ \A i \in DOMAIN calls : calls'[i] = calls[i]
      /\ \A i \in DOMAIN calls' \ DOMAIN calls : calls'[i].req = r

\* C10: under every interleaving, two requests with the same method, path
\* and body get the same response and the same number of outbound calls;
\* a step of one request changes no other request's response, position or
\* outbound call; and once every request is answered, the number of
\* outbound calls started is the number of POST /webhook DEPLOY requests.
C10_RequestsIndependent ==
  /\ [](SameRequestSameOutcome)
  /\ [](AllAnswered =>
          Len(calls) = Cardinality({r \in RequestIds : IsDeployPost(r)}))
  /\ [][OthersUntouched]_vars

C10_Witness ==
  /\ AllAnswered
  /\ IsDeployPost(1)
  /\ req[2] = req[1]
  /\ Len(calls) = 2
  /\ calls[1].state = "failed"
  /\ calls[2].state = "sent"

(***************************************************************************)
(* Properties of the formatting, over every DEPLOY payload (FormatSpec).   *)
(***************************************************************************)
PayloadOf(i) == req[calls[i].req].body

\* the optional fields, read from the payload
Field(data, f) ==
  CASE f = "project" -> Get(Get(data, "project"), "name")
    [] f = "environment" -> Get(Get(data, "environment"), "name")
    [] f = "creator" -> Get(Get(Get(data, "deployment"), "creator"), "name")
    [] f = "deploymentId" -> Get(Get(data, "deployment"), "id")

OptionalFields == {"project", "environment", "creator", "deploymentId"}

\* formatting did not throw: the handler went on to start its call
Formatted ==
  /\ process # "crashed"
  /\ \A r \in RequestIds :
       (IsDeployPost(r) /\ phase[r] \in {"awaiting", "done"}) =>
         OutboundOf(r) # {}

Placeholder(b, f) ==
  IF b = IndexJs THEN "Unknown"
  ELSE CASE f = "project" -> "Unknown Project"
         [] f = "environment" -> "Unknown Environment"
         [] f = "creator" -> "Unknown Creator"
         [] f = "deploymentId" -> "Unknown"

RenderedFields(b) ==
  IF b = IndexJs THEN OptionalFields \ {"deploymentId"} ELSE OptionalFields

C7_GlyphFromTableOrDefault ==
  \A i \in DOMAIN calls :
    LET status == Get(PayloadOf(i), "status")
    IN  calls[i].message.glyph =
          IF status.t = "string" /\ status.v \in DOMAIN statusEmojis(build)
          THEN statusEmojis(build)[status.v]
          ELSE DefaultGlyph

\* C8: the outbound message of every DEPLOY payload carries exactly one
\* inline button, whose URL is
\* https://railway.app/project/<project.id>/deployments when project.id is
\* present and https://railway.app when it is absent (no project, no id,
\* or an empty id).
C8_OneButtonToProject ==
  /\ \A r \in RequestIds :
       (IsDeployPost(r) /\ phase[r] \in {"awaiting", "done"}) =>
         OutboundOf(r) # {}
  /\ \A i \in DOMAIN calls :
       LET id == Get(Get(PayloadOf(i), "project"), "id")
       IN  /\ "reply_markup" \in DOMAIN calls[i].options
           /\ Len(calls[i].options.reply_markup) = 1
           /\ Len(calls[i].options.reply_markup[1]) = 1
           /\ calls[i].options.reply_markup[1][1].url =
                IF id = Undefined \/ id = Str("")
                THEN "https://railway.app"
                ELSE "https://railway.app/project/" \o id.v \o "/deployments"

C8_Witness ==
  /\ Len(calls) = 1
  /\ Get(Get(PayloadOf(1), "project"), "id") = Str("p1")
  /\ Get(Get(PayloadOf(1), "project"), "name") = Undefined
  /\ calls[1].options.reply_markup
       = << << [text |-> "View Project",
                url |-> "https://railway.app/project/p1/deployments"] >> >>
  /\ calls[1].state = "sent"

====
